---- MODULE Spec2Model ----
(***************************************************************************)
(* Model of libs/acl/opentelemetry/provider.go: NewOpenTelemetryProvider,  *)
(* newResource and OtelProvider.Shutdown.  The external SDK is modelled by *)
(* the outcome (nil error or an error value) of each call that can fail    *)
(* and by a log of the SDK calls the code makes.                           *)
(***************************************************************************)
EXTENDS Integers, Sequences, FiniteSets, TLC

\* ---------------------------------------------------------------- bounds
NumErrs == 2        \* distinct error values the SDK can return
MaxShutdowns == 2   \* Shutdown calls made on one returned handle pair

\* ---------------------------------------------------------------- values
Nil == "nil"                                   \* a nil pointer
NilErr == [msg |-> "", cause |-> 0]            \* a nil error
RawErrs == {[msg |-> "", cause |-> i] : i \in 1..NumErrs}
Outcomes == {NilErr} \cup RawErrs              \* result of a fallible SDK call

\* fmt.Errorf(format, err) with a single %v verb
Errorf(format, e) == [msg |-> format, cause |-> e.cause]

TraceExporterMsg == "failed to create otlp trace exporter: %v"
MetricExporterMsg == "failed to create otlp metric exporter: %v"

\* a nil *OtelProvider, and &OtelProvider{...}
NilProvider == [TracerProvider |-> Nil, MeterProvider |-> Nil, isNil |-> TRUE]
OtelProvider(tp, mp) == [TracerProvider |-> tp, MeterProvider |-> mp, isNil |-> FALSE]

\* the configuration newConfig(opts) resolves to
Configs ==
  [enableTracing : BOOLEAN, enableMetrics : BOOLEAN,
   exportEndpoint : {"", "collector:4317"},
   exportHeaders : {{}, {<<"authorization", "token">>}},
   exportInsecure : BOOLEAN, exportTLSInsecure : BOOLEAN,
   resource : {Nil, "customResource"},
   resourceDetectors : {{}, {"customDetector"}},
   resourceAttributes : {{}, {"service.name"}},
   sdkTracerProvider : {Nil, "overrideTracerProvider"},
   meterProvider : {Nil, "overrideMeterProvider"}]

UnsetConfig ==
  [enableTracing |-> FALSE, enableMetrics |-> FALSE, exportEndpoint |-> "",
   exportHeaders |-> {}, exportInsecure |-> FALSE, exportTLSInsecure |-> FALSE,
   resource |-> Nil, resourceDetectors |-> {}, resourceAttributes |-> {},
   sdkTracerProvider |-> Nil, meterProvider |-> Nil]

\* one entry of the log of SDK calls
Call(fn, e) == [fn |-> fn, err |-> e]

\* ---------------------------------------------------------------- newResource
\* newResource(cfg); detectOut is what resource.New returns as its error
newResourceIgnoreCustom(c, detectOut) ==
  [res |-> IF detectOut # NilErr THEN "defaultResource" ELSE "detectedResource",
   detectors |-> {"host", "env", "processPID", "telemetrySDK"} \cup c.resourceDetectors,
   attributes |-> c.resourceAttributes,
   calls |-> <<Call("resource.New", detectOut)>>
             \o (IF detectOut # NilErr THEN <<Call("resource.Default", NilErr)>> ELSE <<>>)]

newResourceNoFallback(c, detectOut) ==
  IF c.resource # Nil
    THEN [res |-> c.resource, detectors |-> {}, attributes |-> {}, calls |-> <<>>]
    ELSE [res |-> "detectedResource",
          detectors |-> {"host", "env", "processPID", "telemetrySDK"} \cup c.resourceDetectors,
          attributes |-> c.resourceAttributes,
          calls |-> <<Call("resource.New", detectOut)>>]

newResource(c, detectOut) ==
  IF c.resource # Nil
    THEN [res |-> c.resource, detectors |-> {}, attributes |-> {}, calls |-> <<>>]
    ELSE [res |-> IF detectOut # NilErr THEN "defaultResource" ELSE "detectedResource",
          detectors |-> {"host", "env", "processPID", "telemetrySDK"} \cup c.resourceDetectors,
          attributes |-> c.resourceAttributes,
          calls |-> <<Call("resource.New", detectOut)>>
                    \o (IF detectOut # NilErr THEN <<Call("resource.Default", NilErr)>> ELSE <<>>)]

\* ---------------------------------------------------------------- client options
\* the endpoint and header options appended to a client option list
EndpointOpts(c) ==
  (IF c.exportEndpoint # "" THEN <<"WithEndpoint">> ELSE <<>>)
  \o (IF Cardinality(c.exportHeaders) > 0 THEN <<"WithHeaders">> ELSE <<>>)

\* the if / else-if that picks the transport credentials
CredentialOptsBoth(c) ==
  (IF c.exportInsecure THEN <<"WithInsecure">> ELSE <<>>)
  \o (IF c.exportTLSInsecure THEN <<"WithTLSCredentials">> ELSE <<>>)

CredentialOpts(c) ==
  IF c.exportInsecure THEN <<"WithInsecure">>
  ELSE IF c.exportTLSInsecure THEN <<"WithTLSCredentials">>
  ELSE <<>>

ClientOpts(c) == EndpointOpts(c) \o CredentialOpts(c)

\* ---------------------------------------------------------------- branches
NoBranch == [provider |-> Nil, opts |-> <<>>, err |-> NilErr, calls |-> <<>>]

\* the "if cfg.enableTracing" block; expOut is the error of otlptrace.New
TracingBranchNoOverride(c, expOut) ==
  IF ~c.enableTracing THEN NoBranch
  ELSE IF expOut # NilErr
         THEN [provider |-> Nil, opts |-> ClientOpts(c),
               err |-> Errorf(TraceExporterMsg, expOut),
               calls |-> <<Call("otlptracegrpc.NewClient", NilErr),
                           Call("otlptrace.New", expOut)>>]
         ELSE [provider |-> "newTracerProvider", opts |-> ClientOpts(c),
               err |-> NilErr,
               calls |-> <<Call("otlptracegrpc.NewClient", NilErr),
                           Call("otlptrace.New", NilErr),
                           Call("sdktrace.NewBatchSpanProcessor", NilErr),
                           Call("sdktrace.NewTracerProvider", NilErr)>>]

TracingBranchUngated(c, expOut) ==
  IF c.sdkTracerProvider # Nil
    THEN [provider |-> c.sdkTracerProvider,
          opts |-> IF c.enableTracing THEN ClientOpts(c) ELSE <<>>,
          err |-> NilErr, calls |-> <<>>]
    ELSE TracingBranchNoOverride(c, expOut)

TracingBranch(c, expOut) ==
  IF ~c.enableTracing THEN NoBranch
  ELSE IF c.sdkTracerProvider # Nil
         THEN [provider |-> c.sdkTracerProvider, opts |-> ClientOpts(c),
               err |-> NilErr, calls |-> <<>>]
  ELSE IF expOut # NilErr
         THEN [provider |-> Nil, opts |-> ClientOpts(c),
               err |-> Errorf(TraceExporterMsg, expOut),
               calls |-> <<Call("otlptracegrpc.NewClient", NilErr),
                           Call("otlptrace.New", expOut)>>]
         ELSE [provider |-> "newTracerProvider", opts |-> ClientOpts(c),
               err |-> NilErr,
               calls |-> <<Call("otlptracegrpc.NewClient", NilErr),
                           Call("otlptrace.New", NilErr),
                           Call("sdktrace.NewBatchSpanProcessor", NilErr),
                           Call("sdktrace.NewTracerProvider", NilErr)>>]

\* the "if cfg.enableMetrics" block; expOut is the error of otlpmetricgrpc.New
MetricsBranch(c, expOut) ==
  IF ~c.enableMetrics THEN NoBranch
  ELSE IF c.meterProvider # Nil
         THEN [provider |-> c.meterProvider, opts |-> ClientOpts(c),
               err |-> NilErr, calls |-> <<>>]
  ELSE IF expOut # NilErr
         THEN [provider |-> Nil, opts |-> ClientOpts(c),
               err |-> Errorf(MetricExporterMsg, expOut),
               calls |-> <<Call("otlpmetricgrpc.New", expOut)>>]
         ELSE [provider |-> "newMeterProvider", opts |-> ClientOpts(c),
               err |-> NilErr,
               calls |-> <<Call("otlpmetricgrpc.New", NilErr),
                           Call("metric.NewPeriodicReader", NilErr),
                           Call("metric.NewMeterProvider", NilErr)>>]

\* ---------------------------------------------------------------- initialize
BothDisabledNever(c) == FALSE

BothDisabled(c) == ~c.enableTracing /\ ~c.enableMetrics

\* what the call returns when the metrics branch has run
MetricsReturnPartial(t, m) ==
  [ret |-> OtelProvider(t.provider, m.provider), err |-> m.err]

MetricsReturn(t, m) ==
  IF m.err # NilErr
    THEN [ret |-> NilProvider, err |-> m.err]
    ELSE [ret |-> OtelProvider(t.provider, m.provider), err |-> NilErr]

\* the whole of NewOpenTelemetryProvider on configuration c, given the
\* outcomes of resource.New, otlptrace.New and otlpmetricgrpc.New
Initialize(c, detectOut, traceOut, metricOut) ==
  IF BothDisabled(c)
    THEN [ret |-> NilProvider, err |-> NilErr, res |-> Nil,
          detectors |-> {}, traceOpts |-> <<>>, metricsOpts |-> <<>>,
          calls |-> <<>>]
    ELSE
      LET r == newResource(c, detectOut)
          t == TracingBranch(c, traceOut)
          m == MetricsBranch(c, metricOut)
      IN IF t.err # NilErr
           THEN [ret |-> NilProvider, err |-> t.err, res |-> r.res,
                 detectors |-> r.detectors, traceOpts |-> t.opts,
                 metricsOpts |-> <<>>, calls |-> r.calls \o t.calls]
           ELSE [ret |-> MetricsReturn(t, m).ret, err |-> MetricsReturn(t, m).err,
                 res |-> r.res, detectors |-> r.detectors,
                 traceOpts |-> t.opts, metricsOpts |-> m.opts,
                 calls |-> r.calls \o t.calls \o m.calls]

\* ---------------------------------------------------------------- Shutdown
\* the tracer half of Shutdown: lines 40-46
ShutdownTracer(p, tOut) ==
  IF p.TracerProvider # Nil
    THEN [err |-> tOut,
          calls |-> <<Call("TracerProvider.Shutdown", tOut)>>,
          handled |-> IF tOut # NilErr THEN <<tOut>> ELSE <<>>]
    ELSE [err |-> NilErr, calls |-> <<>>, handled |-> <<>>]

\* a Shutdown that returns as soon as the tracer shutdown fails
ShutdownAbortOnError(p, tOut, mOut) ==
  LET t == ShutdownTracer(p, tOut)
  IN IF t.err # NilErr THEN t
     ELSE IF p.MeterProvider # Nil
       THEN [err |-> mOut,
             calls |-> t.calls \o <<Call("MeterProvider.Shutdown", mOut)>>,
             handled |-> t.handled \o (IF mOut # NilErr THEN <<mOut>> ELSE <<>>)]
       ELSE t

\* OtelProvider.Shutdown on handle pair p, given the outcomes of the two
\* underlying shutdowns
Shutdown(p, tOut, mOut) ==
  LET t == ShutdownTracer(p, tOut)
  IN IF p.MeterProvider # Nil
       THEN [err |-> mOut,
             calls |-> t.calls \o <<Call("MeterProvider.Shutdown", mOut)>>,
             handled |-> t.handled \o (IF mOut # NilErr THEN <<mOut>> ELSE <<>>)]
       ELSE t

\* ---------------------------------------------------------------- state
VARIABLES
  pc,            \* "idle" before the call, "returned" after NewOpenTelemetryProvider
  cfg,           \* the configuration of the call
  ret, err,      \* the two results of NewOpenTelemetryProvider
  res,           \* the resource descriptor built by the call (Nil if none)
  detectors,     \* the detectors resource.New was given
  traceOpts,     \* traceClientOpts at the end of the call
  metricsOpts,   \* metricsClientOpts at the end of the call
  calls,         \* SDK constructor calls made by NewOpenTelemetryProvider, in order
  nShutdown,     \* Shutdown calls made so far
  shutErr,       \* result of the last Shutdown call
  shutCalls,     \* underlying shutdowns made by the last Shutdown call, in order
  handled        \* errors passed to otel.Handle by the last Shutdown call

vars == <<pc, cfg, ret, err, res, detectors, traceOpts, metricsOpts, calls,
          nShutdown, shutErr, shutCalls, handled>>

Init ==
  /\ pc = "idle"
  /\ cfg = UnsetConfig
  /\ ret = NilProvider
  /\ err = NilErr
  /\ res = Nil
  /\ detectors = {}
  /\ traceOpts = <<>>
  /\ metricsOpts = <<>>
  /\ calls = <<>>
  /\ nShutdown = 0
  /\ shutErr = NilErr
  /\ shutCalls = <<>>
  /\ handled = <<>>

NewOpenTelemetryProvider ==
  /\ pc = "idle"
  /\ \E c \in Configs, detectOut \in Outcomes, traceOut \in Outcomes, metricOut \in Outcomes :
       LET r == Initialize(c, detectOut, traceOut, metricOut)
       IN /\ cfg' = c
          /\ ret' = r.ret
          /\ err' = r.err
          /\ res' = r.res
          /\ detectors' = r.detectors
          /\ traceOpts' = r.traceOpts
          /\ metricsOpts' = r.metricsOpts
          /\ calls' = r.calls
  /\ pc' = "returned"
  /\ UNCHANGED <<nShutdown, shutErr, shutCalls, handled>>

\* the caller invokes Shutdown on the handle pair it was given
CallShutdown ==
  /\ pc = "returned"
  /\ ~ret.isNil
  /\ nShutdown < MaxShutdowns
  /\ \E tOut \in Outcomes, mOut \in Outcomes :
       LET s == Shutdown(ret, tOut, mOut)
       IN /\ shutErr' = s.err
          /\ shutCalls' = s.calls
          /\ handled' = s.handled
  /\ nShutdown' = nShutdown + 1
  /\ UNCHANGED <<pc, cfg, ret, err, res, detectors, traceOpts, metricsOpts, calls>>

Next == NewOpenTelemetryProvider \/ CallShutdown

Spec == Init /\ [][Next]_vars


\* ---------------------------------------------------------------- helpers for the properties
Returned == pc = "returned"

\* the call log contains a call of fn
Called(log, fn) == \E i \in 1..Len(log) : log[i].fn = fn

\* the call log contains a call of fn that returned a non-nil error
Failed(log, fn) == \E i \in 1..Len(log) : log[i].fn = fn /\ log[i].err # NilErr

\* the error fn returned (NilErr when it was not called)
ErrOf(log, fn) ==
  IF Called(log, fn) THEN (CHOOSE i \in 1..Len(log) : log[i].fn = fn) ELSE 0

ErrorOf(log, fn) == IF Called(log, fn) THEN log[ErrOf(log, fn)].err ELSE NilErr

FnSeq(log) == [i \in 1..Len(log) |-> log[i].fn]

TraceConstructors ==
  {"otlptracegrpc.NewClient", "otlptrace.New",
   "sdktrace.NewBatchSpanProcessor", "sdktrace.NewTracerProvider"}

MetricConstructors ==
  {"otlpmetricgrpc.New", "metric.NewPeriodicReader", "metric.NewMeterProvider"}

ResourceBuilders == {"resource.New", "resource.Default"}

NoneCalled(log, fns) == \A i \in 1..Len(log) : log[i].fn \notin fns

\* the credential options within an option list
Creds(opts) == SelectSeq(opts, LAMBDA o : o \in {"WithInsecure", "WithTLSCredentials"})

\* the tracing / metrics block of the call was entered
TracingReached == Returned /\ cfg.enableTracing
MetricsReached == Returned /\ cfg.enableMetrics /\ err.msg # TraceExporterMsg

\* ---------------------------------------------------------------- C1
\* C1: when enableTracing and enableMetrics are both false, the call returns
\* a nil handle pair and a nil error whatever the other options are, and it
\* builds no resource descriptor and constructs no exporter or provider.
C1_DisabledReturnsNothing ==
  (Returned /\ ~cfg.enableTracing /\ ~cfg.enableMetrics)
    => /\ ret = NilProvider
       /\ err = NilErr
       /\ res = Nil
       /\ detectors = {}
       /\ calls = <<>>
       /\ traceOpts = <<>> /\ metricsOpts = <<>>

C1_Witness ==
  /\ Returned /\ ~cfg.enableTracing /\ ~cfg.enableMetrics
  /\ cfg.sdkTracerProvider # Nil /\ cfg.meterProvider # Nil
  /\ cfg.resource # Nil /\ cfg.exportEndpoint # "" /\ cfg.exportInsecure
  /\ ret = NilProvider

\* ---------------------------------------------------------------- C2
\* C2: when the trace or the metric exporter cannot be constructed the call
\* returns a nil handle pair and a non-nil error naming that exporter kind; a
\* handle pair never comes with an error, and no pair is returned when the
\* tracing side was built and the metrics exporter failed.
C2_ExporterFailureIsAtomic ==
  Returned =>
    /\ (err # NilErr => ret = NilProvider)
    /\ (Failed(calls, "otlptrace.New")
          => /\ ret = NilProvider
             /\ err = Errorf(TraceExporterMsg, ErrorOf(calls, "otlptrace.New")))
    /\ (Failed(calls, "otlpmetricgrpc.New")
          => /\ ret = NilProvider
             /\ err = Errorf(MetricExporterMsg, ErrorOf(calls, "otlpmetricgrpc.New")))

C2_Witness ==
  /\ Returned
  /\ Called(calls, "sdktrace.NewTracerProvider")
  /\ Failed(calls, "otlpmetricgrpc.New")
  /\ ret = NilProvider /\ err.msg = MetricExporterMsg

\* ---------------------------------------------------------------- C3
\* the error of the latest failing underlying shutdown of a Shutdown call
LastFailure(log) ==
  IF \E i \in 1..Len(log) : log[i].err # NilErr
    THEN log[CHOOSE i \in 1..Len(log) :
               /\ log[i].err # NilErr
               /\ \A j \in (i+1)..Len(log) : log[j].err = NilErr].err
    ELSE NilErr

\* C3: Shutdown returns the error of the latest underlying shutdown that
\* failed, and nil only if none failed; a tracer failure followed by a
\* successful meter shutdown is still returned.
C3_ShutdownReturnsLastFailure ==
  nShutdown > 0 => shutErr = LastFailure(shutCalls)

\* ---------------------------------------------------------------- C4
\* C4 as stated: an enabled branch with an override provider always yields
\* that override instance as the handle the call returns.
C4_OverrideAlwaysReturned ==
  Returned =>
    /\ (cfg.enableTracing /\ cfg.sdkTracerProvider # Nil
          => ret.TracerProvider = cfg.sdkTracerProvider)
    /\ (cfg.enableMetrics /\ cfg.meterProvider # Nil
          => ret.MeterProvider = cfg.meterProvider)

\* C4 (amended): an enabled branch with an override provider constructs no
\* exporter, processor/reader or provider and produces no construction
\* error; whenever the call returns a handle pair the handle of that branch
\* is exactly the override instance, and the only way no pair is returned is
\* an exporter failure of the other branch.
C4_OverrideUsedVerbatim ==
  Returned =>
    /\ (cfg.enableTracing /\ cfg.sdkTracerProvider # Nil
          => /\ NoneCalled(calls, TraceConstructors)
             /\ err.msg # TraceExporterMsg
             /\ (~ret.isNil => ret.TracerProvider = cfg.sdkTracerProvider)
             /\ (ret.isNil => err.msg = MetricExporterMsg))
    /\ (cfg.enableMetrics /\ cfg.meterProvider # Nil
          => /\ NoneCalled(calls, MetricConstructors)
             /\ err.msg # MetricExporterMsg
             /\ (~ret.isNil => ret.MeterProvider = cfg.meterProvider)
             /\ (ret.isNil => err.msg = TraceExporterMsg))

C4_Witness ==
  /\ Returned /\ cfg.enableTracing /\ cfg.sdkTracerProvider # Nil
  /\ cfg.enableMetrics /\ cfg.meterProvider = Nil
  /\ ~ret.isNil /\ ret.TracerProvider = "overrideTracerProvider"
  /\ ret.MeterProvider = "newMeterProvider"

\* ---------------------------------------------------------------- C5
\* the credential part of an option list obeys the precedence rule
CredsObeyPolicy(opts) ==
  /\ Len(Creds(opts)) <= 1
  /\ (cfg.exportInsecure => Creds(opts) = <<"WithInsecure">>)
  /\ (~cfg.exportInsecure /\ cfg.exportTLSInsecure
        => Creds(opts) = <<"WithTLSCredentials">>)
  /\ (~cfg.exportInsecure /\ ~cfg.exportTLSInsecure => Creds(opts) = <<>>)

\* C5: for the trace and the metrics exporter alike, exportInsecure selects
\* the plaintext option alone (even with exportTLSInsecure set), otherwise
\* exportTLSInsecure selects the unverified-TLS option alone, otherwise no
\* credential option is applied; at most one credential option is applied.
C5_TransportSecurityPolicy ==
  /\ (TracingReached => CredsObeyPolicy(traceOpts))
  /\ (MetricsReached => CredsObeyPolicy(metricsOpts))
  /\ (TracingReached /\ MetricsReached => Creds(traceOpts) = Creds(metricsOpts))

C5_Witness ==
  /\ Returned /\ cfg.exportInsecure /\ cfg.exportTLSInsecure
  /\ Called(calls, "otlptrace.New") /\ Called(calls, "otlpmetricgrpc.New")
  /\ Creds(traceOpts) = <<"WithInsecure">>
  /\ Creds(metricsOpts) = <<"WithInsecure">>

\* ---------------------------------------------------------------- C6
\* the underlying shutdowns a handle pair calls for, in order
ExpectedShutdowns(p) ==
  (IF p.TracerProvider # Nil THEN <<"TracerProvider.Shutdown">> ELSE <<>>)
  \o (IF p.MeterProvider # Nil THEN <<"MeterProvider.Shutdown">> ELSE <<>>)

\* the non-nil errors of a call log, in order
Failures(log) ==
  LET f == SelectSeq(log, LAMBDA k : k.err # NilErr)
  IN [i \in 1..Len(f) |-> f[i].err]

\* C6: a Shutdown call shuts down exactly the non-nil providers, once each,
\* tracer first and then meter; every failure goes to the error handler and
\* a tracer failure does not stop the meter shutdown; with only a trace
\* provider there is one underlying shutdown and nil is returned on success.
C6_ShutdownSequence ==
  nShutdown > 0 =>
    /\ FnSeq(shutCalls) = ExpectedShutdowns(ret)
    /\ handled = Failures(shutCalls)
    /\ (ret.TracerProvider # Nil /\ ret.MeterProvider = Nil
          => /\ Len(shutCalls) = 1
             /\ (shutCalls[1].err = NilErr => shutErr = NilErr))

C6_Witness ==
  /\ nShutdown > 0
  /\ Len(shutCalls) = 2
  /\ shutCalls[1].fn = "TracerProvider.Shutdown" /\ shutCalls[1].err # NilErr
  /\ shutCalls[2].fn = "MeterProvider.Shutdown"
  /\ Len(handled) >= 1

\* ---------------------------------------------------------------- C7
\* C7: with a pre-built resource descriptor in the configuration,
\* newResource yields that descriptor and invokes no detector, whatever
\* resourceDetectors and resourceAttributes are configured.
C7_CustomResourceVerbatim ==
  (Returned /\ ~(~cfg.enableTracing /\ ~cfg.enableMetrics) /\ cfg.resource # Nil)
    => /\ res = cfg.resource
       /\ detectors = {}
       /\ NoneCalled(calls, ResourceBuilders)

C7_Witness ==
  /\ Returned /\ cfg.enableTracing /\ cfg.resource # Nil
  /\ cfg.resourceDetectors # {} /\ cfg.resourceAttributes # {}
  /\ res = "customResource"

\* ---------------------------------------------------------------- C8
\* C8: a failing resource detection is replaced by the default descriptor
\* and the call goes on; every error the call returns is a trace- or
\* metric-exporter construction error and never the detection error.
C8_DetectionFailureRecovered ==
  Returned =>
    /\ (Failed(calls, "resource.New")
          => /\ res = "defaultResource"
             /\ (cfg.enableTracing /\ cfg.sdkTracerProvider = Nil
                   => Called(calls, "otlptrace.New"))
             /\ (~Failed(calls, "otlptrace.New") /\ ~Failed(calls, "otlpmetricgrpc.New")
                   => err = NilErr /\ ~ret.isNil))
    /\ (err # NilErr
          => \/ /\ Failed(calls, "otlptrace.New")
                /\ err = Errorf(TraceExporterMsg, ErrorOf(calls, "otlptrace.New"))
             \/ /\ Failed(calls, "otlpmetricgrpc.New")
                /\ err = Errorf(MetricExporterMsg, ErrorOf(calls, "otlpmetricgrpc.New")))

C8_Witness ==
  /\ Returned /\ Failed(calls, "resource.New")
  /\ res = "defaultResource"
  /\ err = NilErr /\ ret.TracerProvider = "newTracerProvider"

\* ---------------------------------------------------------------- C9
\* C9: every trace provider the call constructs is handed to the caller in
\* the returned pair (the call itself shuts nothing down), also when the
\* metric exporter fails after the tracing side was built.
C9_ConstructedProviderIsOwned ==
  (Returned /\ Called(calls, "sdktrace.NewTracerProvider"))
    => ~ret.isNil /\ ret.TracerProvider = "newTracerProvider"

\* ---------------------------------------------------------------- C10
\* C10: on a successful non-nil return the trace handle is non-nil exactly
\* when enableTracing is set and the metrics handle exactly when
\* enableMetrics is set, so an override for a disabled branch is ignored,
\* and at least one handle is non-nil.
C10_HandlesMatchToggles ==
  (Returned /\ err = NilErr /\ ~ret.isNil)
    => /\ (ret.TracerProvider # Nil <=> cfg.enableTracing)
       /\ (ret.MeterProvider # Nil <=> cfg.enableMetrics)
       /\ (ret.TracerProvider # Nil \/ ret.MeterProvider # Nil)

C10_Witness ==
  /\ Returned /\ err = NilErr /\ ~ret.isNil
  /\ ~cfg.enableTracing /\ cfg.sdkTracerProvider # Nil
  /\ cfg.enableMetrics
  /\ ret.TracerProvider = Nil /\ ret.MeterProvider # Nil

====
